---- MODULE Spec2Model ----
(***************************************************************************)
(* Q-GOV Daily Brief (send_brief.py): module configuration, fetch_brief,   *)
(* build_html, send_email and main, as a state machine.                    *)
(*                                                                         *)
(* Python values: a dict is a function whose DOMAIN is the set of keys      *)
(* present, a list is a sequence, a str is a string.  The value returned   *)
(* by json.loads carries its Python type ([type, value]) because           *)
(* build_html faults on anything that has no .get.  A str that the code    *)
(* scans (the model's response text) is a sequence of tokens; a rendered   *)
(* HTML document is the record of the template's interpolated zones.       *)
(***************************************************************************)
EXTENDS Integers, Sequences, FiniteSets, TLC

VARIABLES environ, pc, fault, started, net, response, brief, html, now,
          html2, now2, outbox

vars == <<environ, pc, fault, started, net, response, brief, html, now,
          html2, now2, outbox>>

(***************************************************************************)
(* Bounds of the model                                                     *)
(***************************************************************************)
MaxSections == 2
MaxActors == 2
MaxWatch == 2
MaxBlocks == 3
MaxTick == 2
MinutesPerDay == 2

(***************************************************************************)
(* Python primitives                                                       *)
(***************************************************************************)
Range(s) == {s[i] : i \in 1..Len(s)}

Restrict(f, S) == [k \in S |-> f[k]]

SeqsUpTo(S, n) == UNION {[1..m -> S] : m \in 0..n}

\* dict.get(key, default)
get(d, k, default) == IF k \in DOMAIN d THEN d[k] ELSE default

\* list.index(x): 0-based position of the first element equal to x
index(s, x) == (CHOOSE i \in 1..Len(s) : s[i] = x /\ \A j \in 1..(i - 1) : s[j] # x) - 1

PyDict(d) == [type |-> "dict", value |-> d]
PyList(l) == [type |-> "list", value |-> l]
None == [type |-> "NoneType", value |-> "None"]

(***************************************************************************)
(* Clock: datetime.now() reads an instant, counted in minutes; strftime    *)
(* keeps the calendar day ('%A, %B %d, %Y', '%B %d, %Y') or the day and    *)
(* the minute ('%Y-%m-%d %H:%M UTC').                                      *)
(***************************************************************************)
Instants == 0..MaxTick

strftime_date(t) == [fmt |-> "%A, %B %d, %Y", day |-> t \div MinutesPerDay]

strftime_generated(t) ==
    [fmt |-> "%Y-%m-%d %H:%M UTC", day |-> t \div MinutesPerDay, minute |-> t % MinutesPerDay]

strftime_subject(t) == [fmt |-> "%B %d, %Y", day |-> t \div MinutesPerDay]

(***************************************************************************)
(* Significance and threat colors                                          *)
(***************************************************************************)
SIG_COLORS ==
    [LOW |-> "#4a9eff", MEDIUM |-> "#ffd700", HIGH |-> "#ff8c00", CRITICAL |-> "#ff4444"]

THREAT_COLORS ==
    [LOW      |-> [bg |-> "#e8f5e9", border |-> "#2e7d32", text |-> "#2e7d32"],
     MODERATE |-> [bg |-> "#fff8e1", border |-> "#f9a825", text |-> "#f57f17"],
     ELEVATED |-> [bg |-> "#fff3e0", border |-> "#e65100", text |-> "#bf360c"],
     HIGH     |-> [bg |-> "#ffebee", border |-> "#c62828", text |-> "#b71c1c"]]

levels == <<"LOW", "MODERATE", "ELEVATED", "HIGH">>

(***************************************************************************)
(* build_html                                                              *)
(***************************************************************************)
\* threat = brief.get("threatLevel", "MODERATE")
threat_of(b) == get(b, "threatLevel", "MODERATE")

\* tc = THREAT_COLORS.get(threat, THREAT_COLORS["MODERATE"])
tc_of(threat) == get(THREAT_COLORS, threat, THREAT_COLORS["MODERATE"])

idx_of_default_low(threat) == IF threat \in Range(levels) THEN index(levels, threat) ELSE 0

\* idx = levels.index(threat) if threat in levels else 1
idx_of(threat) == IF threat \in Range(levels) THEN index(levels, threat) ELSE 1

meter_cells_exclusive(tc, idx) ==
    [c \in 1..Len(levels) |->
        [background |-> IF c - 1 < idx THEN tc.border ELSE "#e0e0e0",
         border     |-> IF c - 1 < idx THEN tc.border ELSE "#ccc"]]

\* one <td> per member of levels; cell i (0-based) is filled when i <= idx
meter_cells(tc, idx) ==
    [c \in 1..Len(levels) |->
        [background |-> IF c - 1 <= idx THEN tc.border ELSE "#e0e0e0",
         border     |-> IF c - 1 <= idx THEN tc.border ELSE "#ccc"]]

sig_of_default_low(s) == get(s, "significance", "LOW")

\* sig = s.get("significance", "MEDIUM")
sig_of(s) == get(s, "significance", "MEDIUM")

\* color = SIG_COLORS.get(sig, "#4a9eff")
color_of(sig) == get(SIG_COLORS, sig, "#4a9eff")

RECURSIVE Dedup(_)
Dedup(q) ==
    IF q = <<>> THEN <<>>
    ELSE LET front == Dedup(SubSeq(q, 1, Len(q) - 1))
         IN IF q[Len(q)] \in Range(front) THEN front ELSE Append(front, q[Len(q)])

actors_html_unique(s) == Dedup(get(s, "actors", <<>>))

\* " ".join(<span>{a}</span> for a in s.get("actors", []))
actors_html(s) == [i \in 1..Len(get(s, "actors", <<>>)) |-> get(s, "actors", <<>>)[i]]

section_card_unknown_src(s) ==
    [border   |-> color_of(sig_of(s)),
     domain   |-> get(s, "domain", ""),
     headline |-> get(s, "headline", ""),
     badge    |-> [color |-> color_of(sig_of(s)), label |-> sig_of(s)],
     body     |-> get(s, "body", ""),
     actors   |-> actors_html(s),
     src      |-> get(s, "sourceHint", "unknown")]

\* the <div> appended to sections_html for one section
section_card(s) ==
    [border   |-> color_of(sig_of(s)),
     domain   |-> get(s, "domain", ""),
     headline |-> get(s, "headline", ""),
     badge    |-> [color |-> color_of(sig_of(s)), label |-> sig_of(s)],
     body     |-> get(s, "body", ""),
     actors   |-> actors_html(s),
     src      |-> get(s, "sourceHint", "")]

\* for s in brief.get("sections", []): sections_html += ...
sections_html(b) ==
    [i \in 1..Len(get(b, "sections", <<>>)) |-> section_card(get(b, "sections", <<>>)[i])]

\* "".join(<div>... {item} ...</div> for item in brief.get("watchItems", []))
watch_items_html(b) ==
    [i \in 1..Len(get(b, "watchItems", <<>>)) |-> get(b, "watchItems", <<>>)[i]]

document_stamped(b, t1, t2) ==
    [fault          |-> "none",
     title          |-> strftime_date(t1),
     date_str       |-> strftime_date(t1),
     classification |-> get(b, "classification", "UNCLASSIFIED"),
     posture        |-> tc_of(threat_of(b)),
     meter          |-> meter_cells(tc_of(threat_of(b)), idx_of(threat_of(b))),
     threat         |-> threat_of(b),
     rationale      |-> get(b, "threatRationale", ""),
     summary        |-> get(b, "summary", ""),
     items          |-> Len(get(b, "sections", <<>>)),
     sections       |-> sections_html(b),
     watch          |-> <<strftime_generated(t2)>> \o watch_items_html(b),
     analystNote    |-> get(b, "analystNote", ""),
     generated      |-> strftime_generated(t2)]

\* the interpolated zones of the returned document, for a dict brief
document(b, t1, t2) ==
    [fault          |-> "none",
     title          |-> strftime_date(t1),
     date_str       |-> strftime_date(t1),
     classification |-> get(b, "classification", "UNCLASSIFIED"),
     posture        |-> tc_of(threat_of(b)),
     meter          |-> meter_cells(tc_of(threat_of(b)), idx_of(threat_of(b))),
     threat         |-> threat_of(b),
     rationale      |-> get(b, "threatRationale", ""),
     summary        |-> get(b, "summary", ""),
     items          |-> Len(get(b, "sections", <<>>)),
     sections       |-> sections_html(b),
     watch          |-> watch_items_html(b),
     analystNote    |-> get(b, "analystNote", ""),
     generated      |-> strftime_generated(t2)]

\* build_html(brief): brief.get on a value that is not a dict raises AttributeError
build_html(v, t1, t2) ==
    IF v.type = "dict" THEN document(v.value, t1, t2) ELSE [fault |-> "AttributeError"]

NoHtml == [fault |-> "unrendered"]

(***************************************************************************)
(* Briefs given to the renderer                                            *)
(***************************************************************************)
ThreatLabels == {"LOW", "MODERATE", "ELEVATED", "HIGH", "SEVERE", "moderate"}

SigLabels == {"LOW", "MEDIUM", "HIGH", "CRITICAL", "SEVERE", "medium"}

ActorNames == {"PLA", "NSA"}

BriefKeys == {"date", "classification", "summary", "threatLevel", "threatRationale",
              "sections", "watchItems", "analystNote"}

SectionKeys == {"id", "domain", "headline", "body", "significance", "actors", "sourceHint"}

RefSection ==
    [id |-> "cn-1", domain |-> "China", headline |-> "X", body |-> "...",
     significance |-> "CRITICAL", actors |-> <<"PLA">>, sourceHint |-> "Reuters"]

RefBrief ==
    [date |-> "2025-06-01", classification |-> "UNCLASSIFIED // FOR OFFICIAL USE ONLY",
     summary |-> "S", threatLevel |-> "HIGH", threatRationale |-> "R",
     sections |-> <<RefSection>>, watchItems |-> <<"Y">>, analystNote |-> "A"]

\* every subset of the keys of the brief and of its section
SparseBriefs ==
    {Restrict([RefBrief EXCEPT !.sections = <<Restrict(RefSection, sk)>>], bk) :
        bk \in SUBSET BriefKeys, sk \in SUBSET SectionKeys}

\* every threat label, recognized or not
ThreatBriefs == {[RefBrief EXCEPT !.threatLevel = t] : t \in ThreatLabels}

\* sections that differ in significance or in actors
SectionPool ==
    {[RefSection EXCEPT !.significance = sg] : sg \in SigLabels}
    \cup {Restrict(RefSection, SectionKeys \ {"significance"})}
    \cup {[RefSection EXCEPT !.actors = a] : a \in SeqsUpTo(ActorNames, MaxActors)}

SectionBriefs ==
    {[RefBrief EXCEPT !.sections = ss] : ss \in SeqsUpTo(SectionPool, MaxSections)}

WatchBriefs ==
    {[RefBrief EXCEPT !.watchItems = w] : w \in SeqsUpTo({"Y", "Z"}, MaxWatch)}

Briefs ==
    {PyDict(b) : b \in SparseBriefs \cup ThreatBriefs \cup SectionBriefs \cup WatchBriefs}
    \cup {PyList(<<>>), None}


(***************************************************************************)
(* Configuration: os.environ[...] at import time                           *)
(***************************************************************************)
RECIPIENT_EMAIL == "villano@ionq.co"

RequiredSecrets == <<"GMAIL_USER", "GMAIL_APP_PASSWORD", "ANTHROPIC_API_KEY">>

config_fault_lenient(env) == "none"

\* os.environ[name] raises KeyError for a name that is not set
config_fault(env) == IF Range(RequiredSecrets) \subseteq env THEN "none" ELSE "KeyError"

(***************************************************************************)
(* fetch_brief: the response text is a sequence of tokens, a backtick, the *)
(* word json, a newline, a sentence of prose or a whole JSON document.     *)
(***************************************************************************)
Whitespace == {"\n"}

Prose == "Here is the brief:"

\* the value json.loads returns for each JSON document
JsonDocs ==
    [doc \in {"{brief}", "{}", "[]"} |->
        CASE doc = "{brief}" -> PyDict(RefBrief)
          [] doc = "{}" -> PyDict(Restrict(RefBrief, {}))
          [] doc = "[]" -> PyList(<<>>)]

Fence == <<"<backtick>", "<backtick>", "<backtick>">>

FenceJson == <<"<backtick>", "<backtick>", "<backtick>", "json">>

\* the content blocks a response is made of
TextBlock(t) == [type |-> "text", text |-> t]

ToolBlock == [type |-> "server_tool_use"]

Blocks ==
    {TextBlock(t) : t \in {FenceJson \o <<"\n">>, <<"\n">> \o Fence, Fence, <<"\n">>,
                           <<Prose>>, <<"{brief}">>, <<"{}">>, <<"[]">>}}
    \cup {ToolBlock}

Contents == SeqsUpTo(Blocks, MaxBlocks)

\* "".join(block.text for block in response.content if block.type == "text")
RECURSIVE full_text(_)
full_text(content) ==
    IF content = <<>> THEN <<>>
    ELSE (IF Head(content).type = "text" THEN Head(content).text ELSE <<>>)
         \o full_text(Tail(content))

\* str.replace(old, ""): every non-overlapping occurrence, left to right
RECURSIVE remove(_, _)
remove(s, old) ==
    IF Len(s) < Len(old) THEN s
    ELSE IF SubSeq(s, 1, Len(old)) = old
         THEN remove(SubSeq(s, Len(old) + 1, Len(s)), old)
         ELSE <<Head(s)>> \o remove(Tail(s), old)

\* str.strip(): leading and trailing whitespace removed
RECURSIVE lstrip(_)
lstrip(s) == IF s # <<>> /\ Head(s) \in Whitespace THEN lstrip(Tail(s)) ELSE s

RECURSIVE rstrip(_)
rstrip(s) ==
    IF s # <<>> /\ s[Len(s)] \in Whitespace THEN rstrip(SubSeq(s, 1, Len(s) - 1)) ELSE s

strip(s) == rstrip(lstrip(s))

clean_unstripped(text) == strip(text)

\* clean = full_text.replace("```json", "").replace("```", "").strip()
clean_of(text) == strip(remove(remove(text, FenceJson), Fence))

JSONDecodeError == [type |-> "JSONDecodeError", value |-> "Expecting value"]

\* json.loads(s): the text must be one JSON document
loads(s) ==
    IF Len(s) = 1 /\ s[1] \in DOMAIN JsonDocs THEN JsonDocs[s[1]] ELSE JSONDecodeError

NotFetched == [type |-> "unset", value |-> "unset"]

(***************************************************************************)
(* main: a fault raised in a stage propagates out of main                  *)
(***************************************************************************)
Stages == <<"fetch_brief", "build_html", "send_email">>

after(stage) ==
    CASE stage = "config" -> "fetch_brief"
      [] stage = "fetch_brief" -> "build_html"
      [] stage = "build_html" -> "send_email"
      [] stage = "send_email" -> "done"

propagate_swallowed(stage, f) == after(stage)

\* no try/except anywhere: the first fault ends the process
propagate(stage, f) == IF f = "none" THEN after(stage) ELSE "crashed"

(***************************************************************************)
(* The process                                                             *)
(***************************************************************************)
Init ==
    /\ environ \in SUBSET Range(RequiredSecrets)
    /\ pc = "config"
    /\ fault = "none"
    /\ started = <<>>
    /\ net = <<>>
    /\ response = <<>>
    /\ brief = NotFetched
    /\ html = NoHtml
    /\ now = <<>>
    /\ html2 = NoHtml
    /\ now2 = <<>>
    /\ outbox = <<>>

\* lines 17-19, executed when the module is loaded
LoadConfig ==
    /\ pc = "config"
    /\ fault' = config_fault(environ)
    /\ pc' = propagate("config", config_fault(environ))
    /\ UNCHANGED <<environ, started, net, response, brief, html, now, html2, now2, outbox>>

\* client.messages.create(...) raises
FetchFails ==
    /\ pc = "fetch_brief"
    /\ started' = Append(started, "fetch_brief")
    /\ net' = Append(net, "api.anthropic.com")
    /\ fault' = "APIError"
    /\ pc' = propagate("fetch_brief", "APIError")
    /\ UNCHANGED <<environ, response, brief, html, now, html2, now2, outbox>>

\* client.messages.create(...) returns; the text is cleaned and parsed
FetchBrief ==
    /\ pc = "fetch_brief"
    /\ started' = Append(started, "fetch_brief")
    /\ net' = Append(net, "api.anthropic.com")
    /\ \E content \in Contents :
          LET v == loads(clean_of(full_text(content)))
              f == IF v.type = "JSONDecodeError" THEN "JSONDecodeError" ELSE "none"
          IN /\ response' = content
             /\ brief' = IF f = "none" THEN v ELSE brief
             /\ fault' = f
             /\ pc' = propagate("fetch_brief", f)
    /\ UNCHANGED <<environ, html, now, html2, now2, outbox>>

\* html = build_html(brief)
BuildHtml ==
    /\ pc = "build_html"
    /\ started' = Append(started, "build_html")
    /\ \E t1 \in Instants : \E t2 \in {t \in Instants : t >= t1} :
          LET h == build_html(brief, t1, t2)
              f == IF h.fault = "none" THEN fault ELSE h.fault
          IN /\ html' = h
             /\ now' = <<t1, t2>>
             /\ fault' = f
             /\ pc' = propagate("build_html", f)
    /\ UNCHANGED <<environ, net, response, brief, html2, now2, outbox>>

\* the subject main builds and the message send_email builds
message(b, h, t) ==
    [Subject |-> [threat |-> get(b, "threatLevel", "MODERATE"), date_s |-> strftime_subject(t)],
     From    |-> "GMAIL_USER",
     To      |-> RECIPIENT_EMAIL,
     html    |-> h]

SmtpOutcomes == {"ok", "SMTPConnectError", "SMTPAuthenticationError", "SMTPRecipientsRefused"}

\* lines 278-281 of main and send_email
SendEmail ==
    /\ pc = "send_email"
    /\ started' = Append(started, "send_email")
    /\ net' = Append(net, "smtp.gmail.com:465")
    /\ \E t \in {u \in Instants : u >= now[2]} : \E outcome \in SmtpOutcomes :
          LET f == IF outcome = "ok" THEN fault ELSE outcome
          IN /\ outbox' = IF outcome = "ok"
                          THEN Append(outbox, message(brief.value, html, t))
                          ELSE outbox
             /\ fault' = f
             /\ pc' = propagate("send_email", f)
    /\ UNCHANGED <<environ, response, brief, html, now, html2, now2>>

Next == LoadConfig \/ FetchFails \/ FetchBrief \/ BuildHtml \/ SendEmail

Spec == Init /\ [][Next]_vars

(***************************************************************************)
(* build_html applied to a brief that fetch_brief returned                 *)
(***************************************************************************)
InitRenderOf(briefs) ==
    /\ environ = Range(RequiredSecrets)
    /\ pc = "build_html"
    /\ fault = "none"
    /\ started = <<"fetch_brief">>
    /\ net = <<"api.anthropic.com">>
    /\ response = <<>>
    /\ brief \in briefs
    /\ html = NoHtml
    /\ now = <<>>
    /\ html2 = NoHtml
    /\ now2 = <<>>
    /\ outbox = <<>>

InitRender == InitRenderOf(Briefs)

NextRender == BuildHtml

SpecRender == InitRender /\ [][NextRender]_vars

\* build_html(brief) called once more on the same brief
Rerender ==
    /\ html.fault # "unrendered"
    /\ html2.fault = "unrendered"
    /\ \E t1 \in {t \in Instants : t >= now[2]} : \E t2 \in {t \in Instants : t >= t1} :
          /\ html2' = build_html(brief, t1, t2)
          /\ now2' = <<t1, t2>>
    /\ UNCHANGED <<environ, pc, fault, started, net, response, brief, html, now, outbox>>

RerenderBriefs ==
    {PyDict(b) : b \in ThreatBriefs \cup SectionBriefs \cup WatchBriefs}
    \cup {PyList(<<>>), None}

InitRerender == InitRenderOf(RerenderBriefs)

NextRerender == BuildHtml \/ Rerender

SpecRerender == InitRerender /\ [][NextRerender]_vars

(***************************************************************************)
(* Properties of build_html                                                *)
(***************************************************************************)
Rendered == html.fault # "unrendered" /\ brief.type = "dict"

HasKey(d, k) == k \in DOMAIN d

Sections == IF HasKey(brief.value, "sections") THEN brief.value["sections"] ELSE <<>>

\* C1: for a threatLevel at 0-based position i of LOW, MODERATE, ELEVATED,
\* HIGH, the meter has four cells, the first i+1 carry that level's border
\* color and every later cell is the neutral gray #e0e0e0.
C1_MeterFill ==
    \A i \in 0..3 :
        (Rendered /\ HasKey(brief.value, "threatLevel")
                  /\ brief.value["threatLevel"] = levels[i + 1])
        => /\ html.fault = "none"
           /\ Len(html.meter) = 4
           /\ \A c \in 1..4 :
                 html.meter[c].background =
                     IF c <= i + 1 THEN THREAT_COLORS[levels[i + 1]].border ELSE "#e0e0e0"

C1_Witness ==
    /\ Rendered
    /\ HasKey(brief.value, "threatLevel")
    /\ brief.value["threatLevel"] = "ELEVATED"
    /\ html.meter[3].background = "#e65100"
    /\ html.meter[4].background = "#e0e0e0"

C3_MissingSignificance ==
    Rendered =>
        /\ html.fault = "none"
        /\ \A i \in 1..Len(Sections) :
              ~HasKey(Sections[i], "significance")
              => /\ html.sections[i].border = "#ffd700"
                 /\ html.sections[i].badge.color = "#ffd700"

C3_Witness ==
    /\ Rendered
    /\ Len(Sections) = 2
    /\ ~HasKey(Sections[2], "significance")
    /\ html.fault = "none"
    /\ html.sections[2].border = "#ffd700"

\* C4: a section whose significance is present but is none of LOW, MEDIUM,
\* HIGH, CRITICAL gets the MEDIUM accent color, the color of a section whose
\* significance is absent.
C4_UnknownSignificanceIsMedium ==
    Rendered =>
        /\ html.fault = "none"
        /\ \A i \in 1..Len(Sections) :
              (HasKey(Sections[i], "significance")
               /\ Sections[i]["significance"] \notin {"LOW", "MEDIUM", "HIGH", "CRITICAL"})
              => html.sections[i].border = "#ffd700"

\* C5: one card per section in input order, one actor tag per actor in input
\* order with duplicates kept, and the item count is the number of sections.
C5_CardsInOrder ==
    Rendered =>
        /\ html.items = Len(Sections)
        /\ Len(html.sections) = Len(Sections)
        /\ \A i \in 1..Len(Sections) :
              LET s == Sections[i]
                  card == html.sections[i]
                  actors == IF HasKey(s, "actors") THEN s["actors"] ELSE <<>>
              IN /\ card.badge.label =
                        IF HasKey(s, "significance") THEN s["significance"] ELSE "MEDIUM"
                 /\ Len(card.actors) = Len(actors)
                 /\ \A j \in 1..Len(actors) : card.actors[j] = actors[j]

C5_Witness ==
    /\ Rendered
    /\ Len(Sections) = 2
    /\ HasKey(Sections[1], "significance")
    /\ Sections[1]["significance"] = "LOW"
    /\ Sections[2]["actors"] = <<"NSA", "NSA">>
    /\ html.items = 2
    /\ html.sections[1].badge.label = "LOW"
    /\ html.sections[2].actors = <<"NSA", "NSA">>

\* C8 as stated: whatever fields are absent, build_html does not fault, every
\* absent text field is rendered as the empty string and every absent list
\* field as an empty list.
C8_AbsentIsEmpty ==
    Rendered =>
        /\ html.fault = "none"
        /\ ~HasKey(brief.value, "classification") => html.classification = ""
        /\ ~HasKey(brief.value, "summary") => html.summary = ""
        /\ ~HasKey(brief.value, "threatRationale") => html.rationale = ""
        /\ ~HasKey(brief.value, "analystNote") => html.analystNote = ""
        /\ ~HasKey(brief.value, "sections") => (html.sections = <<>> /\ html.items = 0)
        /\ ~HasKey(brief.value, "watchItems") => html.watch = <<>>
        /\ \A i \in 1..Len(Sections) :
              /\ ~HasKey(Sections[i], "domain") => html.sections[i].domain = ""
              /\ ~HasKey(Sections[i], "headline") => html.sections[i].headline = ""
              /\ ~HasKey(Sections[i], "body") => html.sections[i].body = ""
              /\ ~HasKey(Sections[i], "sourceHint") => html.sections[i].src = ""
              /\ ~HasKey(Sections[i], "actors") => html.sections[i].actors = <<>>

\* C8 amended: whatever fields are absent, build_html does not fault, an
\* absent classification is rendered as the text UNCLASSIFIED, every other
\* absent text field as the empty string and every absent list field as an
\* empty list.
C8_AbsentIsDefault ==
    Rendered =>
        /\ html.fault = "none"
        /\ ~HasKey(brief.value, "classification") => html.classification = "UNCLASSIFIED"
        /\ ~HasKey(brief.value, "summary") => html.summary = ""
        /\ ~HasKey(brief.value, "threatRationale") => html.rationale = ""
        /\ ~HasKey(brief.value, "analystNote") => html.analystNote = ""
        /\ ~HasKey(brief.value, "sections") => (html.sections = <<>> /\ html.items = 0)
        /\ ~HasKey(brief.value, "watchItems") => html.watch = <<>>
        /\ \A i \in 1..Len(Sections) :
              /\ ~HasKey(Sections[i], "domain") => html.sections[i].domain = ""
              /\ ~HasKey(Sections[i], "headline") => html.sections[i].headline = ""
              /\ ~HasKey(Sections[i], "body") => html.sections[i].body = ""
              /\ ~HasKey(Sections[i], "sourceHint") => html.sections[i].src = ""
              /\ ~HasKey(Sections[i], "actors") => html.sections[i].actors = <<>>

C8_Witness ==
    /\ Rendered
    /\ DOMAIN brief.value = {"sections"}
    /\ DOMAIN Sections[1] = {"id"}
    /\ html.fault = "none"
    /\ html.classification = "UNCLASSIFIED"
    /\ html.summary = ""
    /\ html.watch = <<>>
    /\ html.sections[1].src = ""
    /\ html.sections[1].actors = <<>>

ClockZones == {"title", "date_str", "generated"}

ClockFree(h) == Restrict(h, DOMAIN h \ ClockZones)

Rerendered == html2.fault # "unrendered"

\* C10: two renderings of one brief agree on every zone but the displayed
\* date and the GENERATED timestamp, and agree on those too when the clock
\* readings are the same.
C10_Deterministic ==
    Rerendered =>
        /\ ClockFree(html) = ClockFree(html2)
        /\ now = now2 => html = html2

C10_Witness ==
    /\ Rerendered
    /\ brief.type = "dict"
    /\ now # now2
    /\ html.generated # html2.generated
    /\ html.date_str # html2.date_str
    /\ ClockFree(html) = ClockFree(html2)

(***************************************************************************)
(* Properties of the process                                               *)
(***************************************************************************)
IsPrefix(p, q) == Len(p) <= Len(q) /\ SubSeq(q, 1, Len(p)) = p

\* C6: send_email starts only after fetch_brief and then build_html have
\* completed without fault; after a failed remote call or a text that is not
\* JSON nothing is rendered and nothing is sent, after a rendering fault
\* nothing is sent; the process ends at the first fault and no stage is
\* entered twice.
C6_ForwardOnly ==
    /\ IsPrefix(started, Stages)
    /\ "send_email" \in Range(started) => (brief.type = "dict" /\ html.fault = "none")
    /\ "build_html" \in Range(started) => brief.type \notin {"unset", "JSONDecodeError"}
    /\ fault \in {"APIError", "JSONDecodeError"}
       => /\ started = <<"fetch_brief">>
          /\ html.fault = "unrendered"
          /\ outbox = <<>>
          /\ pc = "crashed"
    /\ fault = "AttributeError"
       => /\ started = <<"fetch_brief", "build_html">>
          /\ outbox = <<>>
          /\ pc = "crashed"
    /\ pc = "crashed" => (fault # "none" /\ ~ENABLED Next)

C6_Witness ==
    /\ fault = "JSONDecodeError"
    /\ pc = "crashed"
    /\ full_text(response) = <<Prose, "{brief}">>
    /\ started = <<"fetch_brief">>
    /\ html.fault = "unrendered"
    /\ outbox = <<>>

\* C7: when one of GMAIL_USER, GMAIL_APP_PASSWORD, ANTHROPIC_API_KEY is not
\* in the environment the process fails while loading its configuration:
\* no stage starts and no network call is made.
C7_MissingSecretFailsFirst ==
    ~(Range(RequiredSecrets) \subseteq environ)
    => /\ net = <<>>
       /\ started = <<>>
       /\ pc \in {"config", "crashed"}
       /\ pc = "crashed" => fault = "KeyError"

C7_Witness ==
    /\ environ = {"GMAIL_USER", "GMAIL_APP_PASSWORD"}
    /\ pc = "crashed"
    /\ fault = "KeyError"
    /\ net = <<>>

Fetched == started # <<>> /\ fault # "APIError"

Accepted == Fetched /\ fault # "JSONDecodeError"

Text == full_text(response)

\* C9 as stated: a response text that carries markdown code fencing, or
\* prose or commentary around the JSON, raises the format error; a brief is
\* returned only for the bare JSON document.
C9_FencingIsFatal ==
    (Fetched /\ \E i \in 1..Len(Text) : Text[i] \in {"<backtick>", Prose})
    => fault = "JSONDecodeError"

FenceOpenings == {<<>>, FenceJson, FenceJson \o <<"\n">>, Fence, Fence \o <<"\n">>}

FenceClosings == {<<>>, Fence, <<"\n">> \o Fence}

FencedJson(text) ==
    \E open \in FenceOpenings, close \in FenceClosings, doc \in DOMAIN JsonDocs :
        text = open \o <<doc>> \o close

\* C9 amended: a JSON document wrapped in markdown code fences (and
\* whitespace) is accepted and parsed; a text that carries prose or
\* commentary raises the format error; a brief is returned only when the
\* text holds one JSON document and, besides it, nothing but fence markers
\* and whitespace.
C9_FencesTolerated ==
    Fetched =>
        /\ FencedJson(Text) => Accepted
        /\ Prose \in Range(Text) => fault = "JSONDecodeError"
        /\ Accepted =>
              /\ Cardinality({i \in 1..Len(Text) : Text[i] \in DOMAIN JsonDocs}) = 1
              /\ \A i \in 1..Len(Text) :
                    \/ Text[i] \in {"<backtick>", "json"} \cup Whitespace
                    \/ (Text[i] \in DOMAIN JsonDocs /\ brief = JsonDocs[Text[i]])

C9_Witness ==
    /\ Accepted
    /\ Text = FenceJson \o <<"\n", "{brief}", "\n">> \o Fence
    /\ brief = PyDict(RefBrief)
    /\ pc = "build_html"

====
